---- MODULE Spec2Model ----
(***************************************************************************)
(* State-machine model of molecular_cross_validation/util.py and of the    *)
(* calls scripts/autoencoder_sweep.py makes into it.                       *)
(***************************************************************************)
EXTENDS Integers, Sequences, FiniteSets, TLC

VARIABLES
    \* ---- split_molecules: arguments, locals, results, and the generator
    umis,              \* the count array, flattened: [Items -> Nat]
    data_split,        \* numerator of data_split over SplitDen
    overlap_factor,    \* numerator of the overlap_factor argument over SplitDen
    random_state,      \* "None" or "RandomState": the random_state argument
    tape,              \* variates the seeded generator's stream has produced so far
    pos,               \* how many variates the generator has consumed since seeding
    pc,                \* position in split_molecules
    umis_X_disjoint,
    umis_Y_disjoint,
    shared,            \* line 161's rebinding of overlap_factor to the shared counts
    umis_X,
    umis_Y,
    calls,             \* number of the call in progress (1 or 2)
    first,             \* what the first call returned, once a second one is made
    \* ---- overlap_correction: arguments, locals, result
    oc_data_split,     \* the data_split argument, a float
    sample_ratio,      \* the sample_ratio argument: a float or an array of floats
    oc_pc,             \* position in overlap_correction
    oc_p,              \* p, elementwise (line 127); empty until assigned
    oc_q,              \* q, elementwise (line 128); empty until assigned
    oc_result,         \* the returned tuple, <<>> until the call returns
    \* ---- convert_expectations: arguments, locals, result
    ce_exp_sqrt,       \* the exp_sqrt argument, a 1-d array of reals
    ce_a,              \* the scaling factor a, a float
    ce_b,              \* the scaling factor b: <<>> for None, <<v>> for the float v
    ce_pc,             \* position in convert_expectations
    ce_p_range,        \* p_range (line 63); empty until assigned
    ce_xp,             \* xp (line 67); empty until assigned
    ce_fp,             \* fp (line 68); empty until assigned
    ce_result,         \* the returned array, <<>> until the call returns
    \* ---- poisson_fit: argument, result
    pf_umis,           \* the count matrix: a sequence of cells, each a sequence
                       \* of per-gene counts
    pf_pc,             \* position in poisson_fit
    pf_result          \* the returned array exp_p, <<>> until the call returns

splitVars == <<umis, data_split, overlap_factor, random_state, tape, pos, pc,
               umis_X_disjoint, umis_Y_disjoint, shared, umis_X, umis_Y, calls, first>>

overlapVars == <<oc_data_split, sample_ratio, oc_pc, oc_p, oc_q, oc_result>>

convertVars == <<ce_exp_sqrt, ce_a, ce_b, ce_pc, ce_p_range, ce_xp, ce_fp, ce_result>>

fitVars == <<pf_umis, pf_pc, pf_result>>

vars == <<splitVars, overlapVars, convertVars, fitVars>>

(***************************************************************************)
(* Bounds of the model.                                                    *)
(***************************************************************************)
MaxRatioLen == 2 \* longest sample_ratio array
NItems == 2      \* elements of the count array
MaxCount == 2    \* largest count of an element
SplitDen == 4    \* data_split and overlap_factor range over multiples of 1/SplitDen

Items == 1..NItems
Zeros == [i \in Items |-> 0]


(***************************************************************************)
(* float64 arithmetic.  overlap_correction computes in IEEE-754 binary64;  *)
(* its assertion compares two floats within a tolerance, so rounding is    *)
(* modelled exactly: a float is a sign, a 53-bit significand and an        *)
(* exponent, and every operation rounds its exact result to nearest, ties  *)
(* to even.  Significands are natural numbers held as little-endian        *)
(* sequences of 15-bit limbs.  Exponents of the model's inputs stay far    *)
(* from the overflow and subnormal ranges, which are not modelled.         *)
(***************************************************************************)
LimbBits == 15
Base == 2^LimbBits
Precision == 53

Limb(a, i) == IF i <= Len(a) THEN a[i] ELSE 0

RECURSIVE BNorm(_)
BNorm(a) ==
    IF a = <<>> THEN a
    ELSE IF a[Len(a)] = 0 THEN BNorm(SubSeq(a, 1, Len(a) - 1)) ELSE a

RECURSIVE BAddRec(_, _, _, _, _)
BAddRec(a, b, i, c, acc) ==
    IF i > Len(a) /\ i > Len(b)
    THEN (IF c = 0 THEN acc ELSE Append(acc, c))
    ELSE LET t == Limb(a, i) + Limb(b, i) + c
         IN  BAddRec(a, b, i + 1, t \div Base, Append(acc, t % Base))

BAdd(a, b) == BAddRec(a, b, 1, 0, <<>>)

RECURSIVE BSubRec(_, _, _, _, _)
BSubRec(a, b, i, br, acc) ==
    IF i > Len(a) THEN acc
    ELSE LET d == a[i] - Limb(b, i) - br
         IN  IF d < 0 THEN BSubRec(a, b, i + 1, 1, Append(acc, d + Base))
                      ELSE BSubRec(a, b, i + 1, 0, Append(acc, d))

\* a - b for a >= b
BSub(a, b) == BNorm(BSubRec(a, b, 1, 0, <<>>))

RECURSIVE BCmpRec(_, _, _)
BCmpRec(a, b, i) ==
    IF i = 0 THEN 0
    ELSE IF a[i] > b[i] THEN 1
    ELSE IF a[i] < b[i] THEN -1
    ELSE BCmpRec(a, b, i - 1)

\* -1, 0 or 1 as a < b, a = b or a > b
BCmp(a, b) ==
    IF Len(a) > Len(b) THEN 1
    ELSE IF Len(a) < Len(b) THEN -1
    ELSE BCmpRec(a, b, Len(a))

RECURSIVE BMulSmallRec(_, _, _, _, _)
BMulSmallRec(a, d, i, c, acc) ==
    IF i > Len(a)
    THEN (IF c = 0 THEN acc ELSE Append(acc, c))
    ELSE LET t == a[i] * d + c
         IN  BMulSmallRec(a, d, i + 1, t \div Base, Append(acc, t % Base))

\* a * d for a limb-sized d
BMulSmall(a, d) == IF d = 0 THEN <<>> ELSE BMulSmallRec(a, d, 1, 0, <<>>)

BShiftLimbs(a, n) == IF a = <<>> THEN a ELSE [k \in 1..n |-> 0] \o a

RECURSIVE BMulRec(_, _, _, _)
BMulRec(a, b, i, acc) ==
    IF i > Len(b) THEN acc
    ELSE BMulRec(a, b, i + 1, BAdd(acc, BShiftLimbs(BMulSmall(a, b[i]), i - 1)))

BMul(a, b) == BMulRec(a, b, 1, <<>>)

\* a * 2^n
BShl(a, n) == BShiftLimbs(BMulSmall(a, 2^(n % LimbBits)), n \div LimbBits)

RECURSIVE BDivSmallRec(_, _, _, _, _)
BDivSmallRec(a, d, i, r, acc) ==
    IF i = 0 THEN acc
    ELSE LET t == r * Base + a[i]
         IN  BDivSmallRec(a, d, i - 1, t % d, <<t \div d>> \o acc)

\* floor(a / 2^n)
BShr(a, n) ==
    IF n \div LimbBits >= Len(a) THEN <<>>
    ELSE LET top == SubSeq(a, n \div LimbBits + 1, Len(a))
         IN  BNorm(BDivSmallRec(top, 2^(n % LimbBits), Len(top), 0, <<>>))

RECURSIVE BitLenSmall(_)
BitLenSmall(x) == IF x = 0 THEN 0 ELSE 1 + BitLenSmall(x \div 2)

BitLen(a) == IF a = <<>> THEN 0 ELSE LimbBits * (Len(a) - 1) + BitLenSmall(a[Len(a)])

BBit(a, i) == (Limb(a, i \div LimbBits + 1) \div 2^(i % LimbBits)) % 2

BIsOdd(a) == a # <<>> /\ a[1] % 2 = 1

RECURSIVE BDivDigit(_, _, _, _)
\* the largest limb g + x (x < 2 * bit) with (g + x) * d <= r
BDivDigit(r, d, bit, g) ==
    IF bit = 0 THEN g
    ELSE IF BCmp(BMulSmall(d, g + bit), r) <= 0
         THEN BDivDigit(r, d, bit \div 2, g + bit)
         ELSE BDivDigit(r, d, bit \div 2, g)

RECURSIVE BDivRec(_, _, _, _, _)
\* long division, one limb of the dividend at a time from the top
BDivRec(n, d, i, q, r) ==
    IF i = 0 THEN [q |-> BNorm(q), r |-> r]
    ELSE LET r2 == BNorm(<<n[i]>> \o r)
             g == BDivDigit(r2, d, Base \div 2, 0)
         IN  BDivRec(n, d, i - 1, <<g>> \o q, BSub(r2, BMulSmall(d, g)))

\* quotient and remainder of n by d > 0
BDiv(n, d) == BDivRec(n, d, Len(n), <<>>, <<>>)

RECURSIVE BSqrtRec(_, _, _)
BSqrtRec(n, res, bit) ==
    IF bit = <<>> THEN [r |-> res, rem |-> n]
    ELSE LET t == BAdd(res, bit)
         IN  IF BCmp(n, t) >= 0
             THEN BSqrtRec(BSub(n, t), BAdd(BShr(res, 1), bit), BShr(bit, 2))
             ELSE BSqrtRec(n, BShr(res, 1), BShr(bit, 2))

\* floor(sqrt(n)) and the remainder n - floor(sqrt(n))^2
BSqrt(n) ==
    IF n = <<>> THEN [r |-> <<>>, rem |-> <<>>]
    ELSE BSqrtRec(n, <<>>, BShl(<<1>>, 2 * ((BitLen(n) - 1) \div 2)))

RECURSIVE BFromInt(_)
BFromInt(n) == IF n = 0 THEN <<>> ELSE <<n % Base>> \o BFromInt(n \div Base)

\* ---- floats: NaN, infinities, and s * m * 2^e with m = 0 or 2^52 <= m < 2^53
NaN == [k |-> "nan"]
Inf(s) == [k |-> "inf", s |-> s]
Num(s, m, e) == [k |-> "num", s |-> s, m |-> m, e |-> e]
FZero(s) == Num(s, <<>>, 0)

IsNaN(x) == x.k = "nan"
IsInf(x) == x.k = "inf"
IsZero(x) == x.k = "num" /\ x.m = <<>>

\* The float nearest to (-1)^s * M * 2^E (plus a positive amount below one
\* unit of M when sticky), ties to even.
Round(s, M, E, sticky) ==
    IF M = <<>> THEN FZero(s)
    ELSE LET L == BitLen(M)
         IN  IF L <= Precision
             THEN Num(s, BShl(M, Precision - L), E - (Precision - L))
             ELSE LET d == L - Precision
                      kept == BShr(M, d)
                      rem == BSub(M, BShl(kept, d))
                      c == BCmp(rem, BShl(<<1>>, d - 1))
                      up == c > 0 \/ (c = 0 /\ (sticky \/ BIsOdd(kept)))
                      kept2 == IF up THEN BAdd(kept, <<1>>) ELSE kept
                  IN  IF BitLen(kept2) > Precision
                      THEN Num(s, BShr(kept2, 1), E + d + 1)
                      ELSE Num(s, kept2, E + d)

\* The float of an integer and of n * 2^k
FromInt(n) == IF n < 0 THEN Round(1, BFromInt(-n), 0, FALSE) ELSE Round(0, BFromInt(n), 0, FALSE)
Dyadic(n, k) == LET x == FromInt(n) IN IF IsZero(x) THEN x ELSE [x EXCEPT !.e = @ + k]

FNeg(x) == IF IsNaN(x) THEN x ELSE [x EXCEPT !.s = 1 - @]
FAbs(x) == IF IsNaN(x) THEN x ELSE [x EXCEPT !.s = 0]

FAdd(x, y) ==
    IF IsNaN(x) \/ IsNaN(y) THEN NaN
    ELSE IF IsInf(x) THEN (IF IsInf(y) /\ y.s # x.s THEN NaN ELSE x)
    ELSE IF IsInf(y) THEN y
    ELSE IF IsZero(x) THEN (IF IsZero(y) THEN FZero(IF x.s = 1 /\ y.s = 1 THEN 1 ELSE 0) ELSE y)
    ELSE IF IsZero(y) THEN x
    ELSE LET e == IF x.e < y.e THEN x.e ELSE y.e
             mx == BShl(x.m, x.e - e)
             my == BShl(y.m, y.e - e)
             c == BCmp(mx, my)
         IN  IF x.s = y.s THEN Round(x.s, BAdd(mx, my), e, FALSE)
             ELSE IF c = 0 THEN FZero(0)
             ELSE IF c > 0 THEN Round(x.s, BSub(mx, my), e, FALSE)
             ELSE Round(y.s, BSub(my, mx), e, FALSE)

FSub(x, y) == FAdd(x, FNeg(y))

FMul(x, y) ==
    IF IsNaN(x) \/ IsNaN(y) THEN NaN
    ELSE IF IsInf(x) \/ IsInf(y)
         THEN (IF IsZero(x) \/ IsZero(y) THEN NaN ELSE Inf((x.s + y.s) % 2))
    ELSE IF IsZero(x) \/ IsZero(y) THEN FZero((x.s + y.s) % 2)
    ELSE Round((x.s + y.s) % 2, BMul(x.m, y.m), x.e + y.e, FALSE)

\* numpy's float division: x/0 is an infinity or NaN (with a warning), no exception
FDiv(x, y) ==
    IF IsNaN(x) \/ IsNaN(y) THEN NaN
    ELSE IF IsInf(x) THEN (IF IsInf(y) THEN NaN ELSE Inf((x.s + y.s) % 2))
    ELSE IF IsInf(y) THEN FZero((x.s + y.s) % 2)
    ELSE IF IsZero(y) THEN (IF IsZero(x) THEN NaN ELSE Inf((x.s + y.s) % 2))
    ELSE IF IsZero(x) THEN FZero((x.s + y.s) % 2)
    ELSE LET qr == BDiv(BShl(x.m, Precision + 2), y.m)
         IN  Round((x.s + y.s) % 2, qr.q, x.e - y.e - (Precision + 2), qr.r # <<>>)

\* numpy's sqrt: NaN (with a warning) for a negative argument
FSqrt(x) ==
    IF IsNaN(x) THEN NaN
    ELSE IF IsZero(x) THEN x
    ELSE IF x.s = 1 THEN NaN
    ELSE IF IsInf(x) THEN x
    ELSE LET sh == IF (x.e - (Precision + 3)) % 2 = 0 THEN Precision + 3 ELSE Precision + 4
             sq == BSqrt(BShl(x.m, sh))
         IN  Round(0, sq.r, (x.e - sh) \div 2, sq.rem # <<>>)

\* x <= y; false when either is NaN
FLe(x, y) ==
    IF IsNaN(x) \/ IsNaN(y) THEN FALSE
    ELSE LET d == FSub(x, y) IN IsNaN(d) \/ IsZero(d) \/ d.s = 1

FEq(x, y) == FLe(x, y) /\ FLe(y, x)


(***************************************************************************)
(* Fixed-point reals.  expected_sqrt, convert_expectations and poisson_fit *)
(* are modelled on reals held as integers in units of 1/FX; products and   *)
(* quotients are truncated to that unit.  The operands of the model stay   *)
(* below 46, where every intermediate fits a 32-bit integer.               *)
(***************************************************************************)
FXRoot == 1000
FX == FXRoot * FXRoot

Abs(x) == IF x < 0 THEN -x ELSE x
Sign(x) == IF x < 0 THEN -1 ELSE 1

XMulAbs(x, y) ==
    LET xh == x \div FXRoot  xl == x % FXRoot
        yh == y \div FXRoot  yl == y % FXRoot
        mid == xh * yl + xl * yh
    IN  xh * yh + mid \div FXRoot + ((mid % FXRoot) * FXRoot + xl * yl) \div FX

\* x * y
XMul(x, y) == Sign(x) * Sign(y) * XMulAbs(Abs(x), Abs(y))

RECURSIVE XDivDigits(_, _, _, _)
XDivDigits(r, y, n, acc) ==
    IF n = 0 THEN acc
    ELSE XDivDigits((r * 10) % y, y, n - 1, acc * 10 + (r * 10) \div y)

\* x / y for y # 0
XDiv(x, y) ==
    Sign(x) * Sign(y) * XDivDigits(Abs(x) % Abs(y), Abs(y), 6, Abs(x) \div Abs(y))

RECURSIVE XSqrtNewton(_, _)
XSqrtNewton(x, r) ==
    LET r2 == (r + XDiv(x, r)) \div 2
    IN  IF r2 >= r THEN r ELSE XSqrtNewton(x, r2)

\* sqrt(x) for x >= 0
XSqrt(x) == IF x = 0 THEN 0 ELSE XSqrtNewton(x, IF x > FX THEN x ELSE FX)

RECURSIVE XExpSeries(_, _, _, _)
\* the sum of x^j / j! for j >= k, given u = x^k / k!, added to acc
XExpSeries(x, k, u, acc) ==
    IF u = 0 THEN acc
    ELSE XExpSeries(x, k + 1, XMul(u, x) \div (k + 1), acc + u)

RECURSIVE XExpNeg(_)
\* exp(-x) for x >= 0: exactly 1 at 0
XExpNeg(x) ==
    IF x > FX THEN LET h == XExpNeg(x \div 2) IN XMul(h, h)
    ELSE XDiv(FX, XExpSeries(x, 0, FX, 0))

(***************************************************************************)
(* expected_sqrt                                                           *)
(***************************************************************************)
\* taylor_range = np.arange(1, 60): the series has terms k = 1..59
TaylorTerms == 59

\* the default cutoff, 34.94
Cutoff == 34940000

\* np.sqrt(taylor_range) (line 14)
SqrtTaylorRange == [k \in 1..TaylorTerms |-> XSqrt(k * FX)]

RECURSIVE TaylorSum(_, _, _, _)
\* the sum over k..TaylorTerms of x^k / (k! / sqrt(k)), given u = x^k / k!
TaylorSum(x, k, u, acc) ==
    IF k > TaylorTerms THEN acc
    ELSE TaylorSum(x, k + 1, XMul(u, x) \div (k + 1), acc + XMul(u, SqrtTaylorRange[k]))

\* taylor_expand (lines 17-19): exp(-x) * sum of x^k / taylor_factors[k]
taylor_expand(x) == XMul(XExpNeg(x), TaylorSum(x, 1, x, 0))

\* taylor_around_mean (lines 22-24):
\* sqrt(x) - x^(-0.5)/8 + x^(-1.5)/16 - 5 x^(-2.5)/128
taylor_around_mean(x) ==
    LET r == XSqrt(x)
        i1 == XDiv(FX, r)
        i3 == XDiv(i1, x)
        i5 == XDiv(i3, x)
    IN  r - i1 \div 8 + i3 \div 16 - (5 * i5) \div 128

\* expected_sqrt for one mean (lines 35-40)
expected_sqrt(mean_expression) ==
    IF mean_expression >= Cutoff
    THEN taylor_around_mean(mean_expression)
    ELSE taylor_expand(IF mean_expression < Cutoff THEN mean_expression ELSE Cutoff)

(***************************************************************************)
(* split_molecules                                                         *)
(***************************************************************************)

\* A probability as an exact fraction n/d.
Frac(n, d) == [n |-> n, d |-> d]

\* data_split - overlap_factor (line 157)
ProbX(ds, of) == Frac(ds - of, SplitDen)

\* Mutant: the second probability is not renormalised to the remaining pool.
ProbYUnnormalised(ds, of) == Frac(SplitDen - ds, SplitDen)

\* (1 - data_split) / (1 - data_split + overlap_factor) (line 159)
ProbY(ds, of) == Frac(SplitDen - ds, SplitDen - ds + of)

\* numpy's binomial rejects p < 0, p > 1 and NaN with a ValueError; a zero
\* denominator is the float division by zero of line 159.
ValidProb(p) == p.d > 0 /\ 0 <= p.n /\ p.n <= p.d

\* The quantile classes of the uniform variate that a draw of Binomial(n, p)
\* tells apart: one class per outcome of its support.
Variates(n, p) == IF n = 0 \/ p.n = 0 \/ p.n = p.d THEN {0} ELSE 0..n

\* The outcome of Binomial(n, p) for a variate of class q: a deterministic,
\* monotone function of the variate (inverse-CDF sampling) whose range is the
\* support of the distribution.
BinomialOutcome(n, p, q) ==
    IF p.n = 0 THEN 0
    ELSE IF p.n = p.d THEN n
    ELSE IF q < n THEN q ELSE n

\* Mutant: split_molecules ignores the generator it is handed and seeds a new
\* one from OS entropy.
GeneratorIgnoresArgument(rs) == "entropy"

\* Lines 154-155: a missing random_state is replaced by RandomState(), seeded
\* from OS entropy; otherwise the injected generator is used.
Generator(rs) == IF rs = "None" THEN "entropy" ELSE "injected"

\* The variates an elementwise draw over `n` (one per element) may consume:
\* the injected generator replays its stream where it is already determined
\* and extends it otherwise; an entropy-seeded generator is unconstrained.
DrawVariates(rs, n, p) ==
    { qs \in [Items -> 0..MaxCount] :
        /\ \A i \in Items : qs[i] \in Variates(n[i], p)
        /\ Generator(rs) = "injected" =>
              \A i \in Items : pos + i <= Len(tape) => qs[i] = tape[pos + i] }

\* The generator's stream after the draw consumed qs.
TapeAfter(qs) ==
    [k \in 1..(IF Len(tape) > pos + NItems THEN Len(tape) ELSE pos + NItems) |->
        IF k > pos /\ k <= pos + NItems THEN qs[k - pos] ELSE tape[k]]

Consume(rs, qs) ==
    IF Generator(rs) = "injected"
    THEN tape' = TapeAfter(qs) /\ pos' = pos + NItems
    ELSE UNCHANGED <<tape, pos>>

\* Mutant: the second draw is taken from the whole pool, not from what the
\* first draw left.
RemainingPoolWhole(u, xd) == u

\* umis - umis_X_disjoint (line 159)
RemainingPool(u, xd) == [i \in Items |-> u[i] - xd[i]]

\* Mutant: a sign slip in the shared counts.
SharedCountsSignSlip(u, xd, yd) == [i \in Items |-> u[i] + xd[i] - yd[i]]

\* overlap_factor = umis - umis_X_disjoint - umis_Y_disjoint (line 161)
SharedCounts(u, xd, yd) == [i \in Items |-> u[i] - xd[i] - yd[i]]

\* Mutant: the shared counts are added twice to umis_X.
OutputDoubleShared(d, sh) == [i \in Items |-> d[i] + sh[i] + sh[i]]

\* umis_X = umis_X_disjoint + overlap_factor, umis_Y likewise (lines 162-163)
Output(d, sh) == [i \in Items |-> d[i] + sh[i]]

\* Line 157: umis_X_disjoint = random_state.binomial(umis, data_split - overlap_factor)
BinomialX ==
    /\ pc = "binomial_X"
    /\ ValidProb(ProbX(data_split, overlap_factor))
    /\ \E qs \in DrawVariates(random_state, umis, ProbX(data_split, overlap_factor)) :
          /\ umis_X_disjoint' =
                [i \in Items |-> BinomialOutcome(umis[i], ProbX(data_split, overlap_factor), qs[i])]
          /\ Consume(random_state, qs)
    /\ pc' = "binomial_Y"
    /\ UNCHANGED <<umis, data_split, overlap_factor, random_state,
                   umis_Y_disjoint, shared, umis_X, umis_Y, calls, first>>
    /\ UNCHANGED <<overlapVars, convertVars, fitVars>>

\* Line 157 with a probability numpy rejects: the ValueError leaves the call.
BinomialXError ==
    /\ pc = "binomial_X"
    /\ ~ValidProb(ProbX(data_split, overlap_factor))
    /\ pc' = "ValueError"
    /\ UNCHANGED <<umis, data_split, overlap_factor, random_state, tape, pos,
                   umis_X_disjoint, umis_Y_disjoint, shared, umis_X, umis_Y, calls, first>>
    /\ UNCHANGED <<overlapVars, convertVars, fitVars>>

\* Lines 158-160: umis_Y_disjoint = random_state.binomial(umis - umis_X_disjoint, ...)
BinomialY ==
    /\ pc = "binomial_Y"
    /\ ValidProb(ProbY(data_split, overlap_factor))
    /\ \E qs \in DrawVariates(random_state, RemainingPool(umis, umis_X_disjoint),
                              ProbY(data_split, overlap_factor)) :
          /\ umis_Y_disjoint' =
                [i \in Items |-> BinomialOutcome(RemainingPool(umis, umis_X_disjoint)[i],
                                                 ProbY(data_split, overlap_factor), qs[i])]
          /\ Consume(random_state, qs)
    /\ pc' = "combine"
    /\ UNCHANGED <<umis, data_split, overlap_factor, random_state,
                   umis_X_disjoint, shared, umis_X, umis_Y, calls, first>>
    /\ UNCHANGED <<overlapVars, convertVars, fitVars>>

BinomialYError ==
    /\ pc = "binomial_Y"
    /\ ~ValidProb(ProbY(data_split, overlap_factor))
    /\ pc' = "ValueError"
    /\ UNCHANGED <<umis, data_split, overlap_factor, random_state, tape, pos,
                   umis_X_disjoint, umis_Y_disjoint, shared, umis_X, umis_Y, calls, first>>
    /\ UNCHANGED <<overlapVars, convertVars, fitVars>>

\* Lines 161-165: the shared counts, the two outputs, and the return.
Combine ==
    /\ pc = "combine"
    /\ shared' = SharedCounts(umis, umis_X_disjoint, umis_Y_disjoint)
    /\ umis_X' = Output(umis_X_disjoint, shared')
    /\ umis_Y' = Output(umis_Y_disjoint, shared')
    /\ pc' = "returned"
    /\ UNCHANGED <<umis, data_split, overlap_factor, random_state, tape, pos,
                   umis_X_disjoint, umis_Y_disjoint, calls, first>>
    /\ UNCHANGED <<overlapVars, convertVars, fitVars>>

\* The caller makes a generator from the same seed again (RandomState(seed))
\* and repeats the call with the same arguments.
CallAgain ==
    /\ pc = "returned"
    /\ calls = 1
    /\ random_state = "RandomState"
    /\ first' = <<[X |-> umis_X, Y |-> umis_Y]>>
    /\ pos' = 0
    /\ calls' = 2
    /\ pc' = "binomial_X"
    /\ umis_X_disjoint' = Zeros /\ umis_Y_disjoint' = Zeros /\ shared' = Zeros
    /\ umis_X' = Zeros /\ umis_Y' = Zeros
    /\ UNCHANGED <<umis, data_split, overlap_factor, random_state, tape>>
    /\ UNCHANGED <<overlapVars, convertVars, fitVars>>

\* split_molecules at the entry of the first call: a count array, a split
\* fraction in (0,1), an overlap factor, and a generator that is freshly seeded
\* or absent.
SplitEntry ==
    /\ umis \in [Items -> 0..MaxCount]
    /\ data_split \in 1..(SplitDen - 1)
    /\ overlap_factor \in (-1)..(SplitDen - 1)
    /\ random_state \in {"None", "RandomState"}
    /\ tape = <<>>
    /\ pos = 0
    /\ pc = "binomial_X"
    /\ umis_X_disjoint = Zeros /\ umis_Y_disjoint = Zeros /\ shared = Zeros
    /\ umis_X = Zeros /\ umis_Y = Zeros
    /\ calls = 1
    /\ first = <<>>

\* split_molecules not called
SplitIdle ==
    /\ umis = Zeros /\ data_split = 1 /\ overlap_factor = 0
    /\ random_state = "None" /\ tape = <<>> /\ pos = 0
    /\ pc = "idle"
    /\ umis_X_disjoint = Zeros /\ umis_Y_disjoint = Zeros /\ shared = Zeros
    /\ umis_X = Zeros /\ umis_Y = Zeros
    /\ calls = 0
    /\ first = <<>>

(***************************************************************************)
(* overlap_correction                                                      *)
(***************************************************************************)
One == FromInt(1)
Two == FromInt(2)
Four == FromInt(4)

\* numpy.allclose's default tolerances, rtol = 1e-05 and atol = 1e-08: the
\* floats nearest to these decimals
rtol == FDiv(One, FromInt(100000))
atol == FDiv(One, FromInt(100000000))

\* numpy.isclose for one pair: NaN is close to nothing, an infinity only to
\* itself, and finite x, y when |x - y| <= atol + rtol * |y|
IsClose(x, y) ==
    IF IsNaN(x) \/ IsNaN(y) THEN FALSE
    ELSE IF IsInf(x) \/ IsInf(y) THEN x = y
    ELSE FLe(FAbs(FSub(x, y)), FAdd(atol, FMul(rtol, FAbs(y))))

\* A sample_ratio argument: a float, or an array of floats
Scalar(x) == [scalar |-> TRUE, v |-> <<x>>]
Array(xs) == [scalar |-> FALSE, v |-> xs]

\* np.all(sample_ratio == 0.0) (line 122)
UniformlyZero(r) == \A i \in DOMAIN r.v : IsZero(r.v[i])

\* Mutant: the degenerate case returns data_split for both fractions.
DegenerateResultNoComplement(s) == <<s, s, FZero(0)>>

\* return data_split, 1 - data_split, 0.0 (line 123)
DegenerateResult(s) == <<s, FSub(One, s), FZero(0)>>

\* a = (1 - data_split) / data_split (line 125)
OddsRatio(s) == FDiv(FSub(One, s), s)

\* p = ((1 + a) - np.sqrt((1 + a) ** 2 - 4 * a * sample_ratio)) / (2 * a) (line 127)
SmallerRoot(a, r) ==
    FDiv(FSub(FAdd(One, a),
              FSqrt(FSub(FMul(FAdd(One, a), FAdd(One, a)), FMul(FMul(Four, a), r)))),
         FMul(Two, a))

\* p + q - p * q (line 130)
Union(p, q) == FSub(FAdd(p, q), FMul(p, q))

\* np.allclose(p + q - p * q, sample_ratio) (line 130)
Consistent(p, q, r) == \A i \in DOMAIN r.v : IsClose(Union(p[i], q[i]), r.v[i])

\* new_split + new_split_complement - 1 (line 134)
OverlapFactor(ns, nsc) == FSub(FAdd(ns, nsc), One)

\* Lines 122-123: the degenerate case
OverlapDegenerate ==
    /\ oc_pc = "call"
    /\ UniformlyZero(sample_ratio)
    /\ oc_result' = DegenerateResult(oc_data_split)
    /\ oc_pc' = "returned"
    /\ UNCHANGED <<oc_data_split, sample_ratio, oc_p, oc_q>>
    /\ UNCHANGED <<splitVars, convertVars, fitVars>>

\* Lines 125-128: the smaller root of the quadratic
OverlapSolve ==
    /\ oc_pc = "call"
    /\ ~UniformlyZero(sample_ratio)
    /\ oc_p' = [i \in DOMAIN sample_ratio.v |->
                   SmallerRoot(OddsRatio(oc_data_split), sample_ratio.v[i])]
    /\ oc_q' = [i \in DOMAIN sample_ratio.v |-> FMul(OddsRatio(oc_data_split), oc_p'[i])]
    /\ oc_pc' = "assert"
    /\ UNCHANGED <<oc_data_split, sample_ratio, oc_result>>
    /\ UNCHANGED <<splitVars, convertVars, fitVars>>

\* Line 130: the assertion fails and the AssertionError leaves the call
OverlapAssertFails ==
    /\ oc_pc = "assert"
    /\ ~Consistent(oc_p, oc_q, sample_ratio)
    /\ oc_pc' = "AssertionError"
    /\ UNCHANGED <<oc_data_split, sample_ratio, oc_p, oc_q, oc_result>>
    /\ UNCHANGED <<splitVars, convertVars, fitVars>>

\* Lines 130-136: the assertion holds; the adjusted fractions are returned
OverlapReturn ==
    /\ oc_pc = "assert"
    /\ Consistent(oc_p, oc_q, sample_ratio)
    /\ LET new_split == [i \in DOMAIN sample_ratio.v |-> FDiv(oc_p[i], sample_ratio.v[i])]
           new_split_complement ==
               [i \in DOMAIN sample_ratio.v |-> FDiv(oc_q[i], sample_ratio.v[i])]
       IN  oc_result' = <<new_split, new_split_complement,
                          [i \in DOMAIN sample_ratio.v |->
                              OverlapFactor(new_split[i], new_split_complement[i])]>>
    /\ oc_pc' = "returned"
    /\ UNCHANGED <<oc_data_split, sample_ratio, oc_p, oc_q>>
    /\ UNCHANGED <<splitVars, convertVars, fitVars>>

\* data_split arguments: 1/2, 1/4, 3/4, and 2^-33, all in (0,1)
DataSplits == {Dyadic(1, -1), Dyadic(1, -2), Dyadic(3, -2), Dyadic(1, -33)}

\* sample_ratio values inside [0,1]: 0, 2^-24, 1/2, 3/4, 1
RatiosInDomain == {FZero(0), Dyadic(1, -24), Dyadic(1, -1), Dyadic(3, -2), One}

\* sample_ratio values outside [0,1]: -1, 5/4, 3/2
RatiosOutOfDomain == {FromInt(-1), Dyadic(5, -2), Dyadic(3, -1)}

\* array elements
ArrayRatios == {FZero(0), Dyadic(1, -24), Dyadic(3, -2)}

SampleRatios ==
    {Scalar(x) : x \in RatiosInDomain \cup RatiosOutOfDomain}
        \cup {Array(xs) : xs \in UNION {[1..n -> ArrayRatios] : n \in 1..MaxRatioLen}}

OverlapEntry ==
    /\ oc_data_split \in DataSplits
    /\ sample_ratio \in SampleRatios
    /\ oc_pc = "call"
    /\ oc_p = <<>> /\ oc_q = <<>> /\ oc_result = <<>>

OverlapIdle ==
    /\ oc_data_split = One /\ sample_ratio = Scalar(One)
    /\ oc_pc = "idle"
    /\ oc_p = <<>> /\ oc_q = <<>> /\ oc_result = <<>>

(***************************************************************************)
(* convert_expectations, for a 1-d exp_sqrt and float scaling factors      *)
(***************************************************************************)
MaxSqrtLen == 2  \* longest exp_sqrt array

SeqMax(xs) == CHOOSE m \in {xs[i] : i \in 1..Len(xs)} : \A i \in 1..Len(xs) : xs[i] <= m

\* line 59: np.maximum(exp_sqrt, 0)
ClampNonNegative(xs) == [i \in 1..Len(xs) |-> IF xs[i] < 0 THEN 0 ELSE xs[i]]

\* line 60: np.max(exp_sqrt ** 2) / np.min(a)
MaxVal(xs, a) == XDiv(SeqMax([i \in 1..Len(xs) |-> XMul(xs[i], xs[i])]), a)

RECURSIVE CeilLog2(_, _)
\* the least n >= from with x <= 2^n, for x >= 1: np.ceil(np.log2(x))
CeilLog2(x, from) == IF x <= (2 ^ from) * FX THEN from ELSE CeilLog2(x, from + 1)

\* line 62: vs = 2 ** np.arange(0, ceil(log2(max_val + 1)) + 1) - 1
PowerGrid(max_val) == [i \in 1..(CeilLog2(max_val + FX, 0) + 1) |-> (2 ^ (i - 1) - 1) * FX]

\* np.arange(start, stop, step): ceil((stop - start) / step) points
ARange(start, stop, step) ==
    [k \in 1..((stop - start + step - 1) \div step) |-> start + (k - 1) * step]

RECURSIVE HStack(_)
HStack(arrays) == IF arrays = <<>> THEN <<>> ELSE Head(arrays) \o HStack(Tail(arrays))

\* line 64: the list of segments, the i-th from vs[i] to vs[i+1] in steps of
\* 2^(i+1) * 0.01 (i counted from 0 in the source, from 1 here)
Segments(vs) == [i \in 1..(Len(vs) - 1) |-> ARange(vs[i], vs[i + 1], (2 ^ i) * (FX \div 100))]

\* lines 56-57
DefaultScale(a, b) == IF b = <<>> THEN FX - a ELSE b[1]

\* lines 67-68: expected_sqrt(p_range * scale)
GridSqrt(p_range, scale) == [j \in 1..Len(p_range) |-> expected_sqrt(XMul(p_range[j], scale))]

\* np.interp's search: 0 below xp[1], else the last j with xp[j] <= x
InterpIndex(x, xp) ==
    IF x < xp[1] THEN 0
    ELSE CHOOSE j \in 1..Len(xp) : xp[j] <= x /\ \A l \in (j + 1)..Len(xp) : xp[l] > x

\* np.interp for one x: the end values outside the grid, the grid value on a
\* grid point, the chord between the two neighbours otherwise
Interp(x, xp, fp) ==
    LET j == InterpIndex(x, xp)
    IN  IF j = 0 THEN fp[1]
        ELSE IF j = Len(xp) THEN fp[j]
        ELSE IF xp[j] = x THEN fp[j]
        ELSE XMul(XDiv(fp[j + 1] - fp[j], xp[j + 1] - xp[j]), x - xp[j]) + fp[j]

\* lines 56-65 when the list of segments is not empty
ConvertGrid ==
    /\ ce_pc = "call"
    /\ LET vs == PowerGrid(MaxVal(ClampNonNegative(ce_exp_sqrt), ce_a))
       IN  /\ Len(vs) > 1
           /\ ce_p_range' = HStack(Segments(vs))
    /\ ce_pc' = "expected_sqrt"
    /\ UNCHANGED <<ce_exp_sqrt, ce_a, ce_b, ce_xp, ce_fp, ce_result>>
    /\ UNCHANGED <<splitVars, overlapVars, fitVars>>

\* lines 56-63 when max_val is 0: vs is [0], the list of segments is empty
\* and np.hstack raises ValueError
ConvertEmptyGrid ==
    /\ ce_pc = "call"
    /\ Len(PowerGrid(MaxVal(ClampNonNegative(ce_exp_sqrt), ce_a))) = 1
    /\ ce_pc' = "ValueError"
    /\ UNCHANGED <<ce_exp_sqrt, ce_a, ce_b, ce_p_range, ce_xp, ce_fp, ce_result>>
    /\ UNCHANGED <<splitVars, overlapVars, fitVars>>

\* lines 67-68
ConvertTables ==
    /\ ce_pc = "expected_sqrt"
    /\ ce_xp' = GridSqrt(ce_p_range, ce_a)
    /\ ce_fp' = GridSqrt(ce_p_range, DefaultScale(ce_a, ce_b))
    /\ ce_pc' = "interp"
    /\ UNCHANGED <<ce_exp_sqrt, ce_a, ce_b, ce_p_range, ce_result>>
    /\ UNCHANGED <<splitVars, overlapVars, fitVars>>

\* lines 70-80, the branch of float scaling factors
ConvertInterp ==
    /\ ce_pc = "interp"
    /\ LET x == ClampNonNegative(ce_exp_sqrt)
       IN  ce_result' = [i \in 1..Len(x) |-> Interp(x[i], ce_xp, ce_fp)]
    /\ ce_pc' = "returned"
    /\ UNCHANGED <<ce_exp_sqrt, ce_a, ce_b, ce_p_range, ce_xp, ce_fp>>
    /\ UNCHANGED <<splitVars, overlapVars, fitVars>>

\* the expected-sqrt values and the scaling factors of the model
SqrtValues == {-(2 * FX) \div 5, 0, (4 * FX) \div 5, (6 * FX) \div 5}
Scales == {FX \div 2, FX}

ConvertEntry ==
    /\ ce_exp_sqrt \in UNION {[1..n -> SqrtValues] : n \in 1..MaxSqrtLen}
    /\ ce_a \in Scales
    /\ ce_b \in {<<>>} \cup {<<b>> : b \in Scales}
    /\ ce_pc = "call"
    /\ ce_p_range = <<>>
    /\ ce_xp = <<>>
    /\ ce_fp = <<>>
    /\ ce_result = <<>>

ConvertIdle ==
    /\ ce_exp_sqrt = <<>>
    /\ ce_a = FX
    /\ ce_b = <<>>
    /\ ce_pc = "idle"
    /\ ce_p_range = <<>>
    /\ ce_xp = <<>>
    /\ ce_fp = <<>>
    /\ ce_result = <<>>

(***************************************************************************)
(* poisson_fit.  A float is a record: a real in fixed point, or nan.       *)
(***************************************************************************)
NCells == 2  \* most cells (rows) of the matrix
NGenes == 2  \* most genes (columns) of the matrix
MaxUmi == 2  \* largest count of one gene in one cell

Real(v) == [nan |-> FALSE, v |-> v]
NotANumber == [nan |-> TRUE, v |-> 0]

RECURSIVE SeqSum(_)
SeqSum(xs) == IF xs = <<>> THEN 0 ELSE Head(xs) + SeqSum(Tail(xs))

Column(m, g) == [c \in 1..Len(m) |-> m[c][g]]

\* line 91: (umis > 0).sum(0) / n_cells
Pct(m, g) == XDiv(Cardinality({c \in 1..Len(m) : m[c][g] > 0}) * FX, Len(m) * FX)

\* line 92: umis.sum(0) / umis.sum(); 0 / 0 is nan
Exp(m, g) ==
    LET total == SeqSum([c \in 1..Len(m) |-> SeqSum(m[c])])
    IN  IF total = 0 THEN NotANumber
        ELSE Real(XDiv(SeqSum(Column(m, g)) * FX, total * FX))

\* line 93: umis.sum(1)
Numis(m, c) == SeqSum(m[c])

\* line 95: np.exp(-exp[g] * numis[c])
ProbZero(m, g, c) ==
    IF Exp(m, g).nan THEN NotANumber ELSE Real(XExpNeg(Exp(m, g).v * Numis(m, c)))

\* line 96: (1 - prob_zero).mean(1)
ExpPctNz(m, g) ==
    IF \E c \in 1..Len(m) : ProbZero(m, g, c).nan THEN NotANumber
    ELSE Real(SeqSum([c \in 1..Len(m) |-> FX - ProbZero(m, g, c).v]) \div Len(m))

\* line 98: (prob_zero * (1 - prob_zero)).mean(1) / n_cells
VarPctNz(m, g) ==
    IF \E c \in 1..Len(m) : ProbZero(m, g, c).nan THEN NotANumber
    ELSE Real((SeqSum([c \in 1..Len(m) |->
                  XMul(ProbZero(m, g, c).v, FX - ProbZero(m, g, c).v)]) \div Len(m)) \div Len(m))

\* line 99: np.sqrt(var_pct_nz)
StdPctNz(m, g) == IF VarPctNz(m, g).nan THEN NotANumber ELSE Real(XSqrt(VarPctNz(m, g).v))

\* line 102: std_pct_nz != 0, which is True of nan
NonZero(x) == x.nan \/ x.v # 0

\* erfc(y) for y >= 0, by the rational approximation 7.1.26 of Abramowitz and
\* Stegun: t * (a1 + t * (a2 + t * (a3 + t * (a4 + t * a5)))) * exp(-y^2),
\* t = 1 / (1 + p * y)
Erfc(y) ==
    LET t == XDiv(FX, FX + XMul(327591, y))
        poly == XMul(t, 254830 + XMul(t, -284497 + XMul(t, 1421414 +
                    XMul(t, -1453152 + XMul(t, 1061405)))))
    IN  XMul(poly, XExpNeg(XMul(y, y)))

\* beyond ZLimit standard deviations the normal tail is 0 in floats too
ZLimit == 40
InvSqrt2 == 707107

\* scipy.stats.norm.cdf(x, loc, scale) for scale > 0: ndtr((x - loc) / scale),
\* ndtr(z) = erfc(-z / sqrt(2)) / 2; nan when an argument is nan
NormCdf(x, loc, scale) ==
    IF loc.nan \/ scale.nan THEN NotANumber
    ELSE IF x - loc.v >= ZLimit * scale.v THEN Real(FX)
    ELSE IF loc.v - x >= ZLimit * scale.v THEN Real(0)
    ELSE LET z == XDiv(x - loc.v, scale.v)
         IN  IF z >= 0 THEN Real(FX - Erfc(XMul(z, InvSqrt2)) \div 2)
             ELSE Real(Erfc(XMul(-z, InvSqrt2)) \div 2)

\* lines 101-103: 1.0 where the standard deviation is 0, the cdf elsewhere
ExpP(m, g) ==
    IF NonZero(StdPctNz(m, g)) THEN NormCdf(Pct(m, g), ExpPctNz(m, g), StdPctNz(m, g))
    ELSE Real(FX)

\* lines 90-105
PoissonFit ==
    /\ pf_pc = "call"
    /\ pf_result' = [g \in 1..Len(pf_umis[1]) |-> ExpP(pf_umis, g)]
    /\ pf_pc' = "returned"
    /\ UNCHANGED pf_umis
    /\ UNCHANGED <<splitVars, overlapVars, convertVars>>

FitEntry ==
    /\ pf_umis \in UNION {[1..n -> [1..g -> 0..MaxUmi]] : n \in 1..NCells, g \in 1..NGenes}
    /\ pf_pc = "call"
    /\ pf_result = <<>>

FitIdle ==
    /\ pf_umis = <<>>
    /\ pf_pc = "idle"
    /\ pf_result = <<>>

(***************************************************************************)
(* Specifications: one per function, each from the entry of a call         *)
(***************************************************************************)
InitSplit == SplitEntry /\ OverlapIdle /\ ConvertIdle /\ FitIdle

NextSplit ==
    \/ BinomialX
    \/ BinomialXError
    \/ BinomialY
    \/ BinomialYError
    \/ Combine
    \/ CallAgain

SpecSplit == InitSplit /\ [][NextSplit]_vars

InitOverlap == OverlapEntry /\ SplitIdle /\ ConvertIdle /\ FitIdle

NextOverlap ==
    \/ OverlapDegenerate
    \/ OverlapSolve
    \/ OverlapAssertFails
    \/ OverlapReturn

SpecOverlap == InitOverlap /\ [][NextOverlap]_vars

InitConvert == ConvertEntry /\ SplitIdle /\ OverlapIdle /\ FitIdle

NextConvert ==
    \/ ConvertGrid
    \/ ConvertEmptyGrid
    \/ ConvertTables
    \/ ConvertInterp

SpecConvert == InitConvert /\ [][NextConvert]_vars

InitFit == FitEntry /\ SplitIdle /\ OverlapIdle /\ ConvertIdle

NextFit == PoissonFit

SpecFit == InitFit /\ [][NextFit]_vars

(***************************************************************************)
(* Claims about split_molecules                                            *)
(***************************************************************************)
Returned == pc = "returned"

\* C1: two calls of split_molecules with the same arguments, each handed a
\* generator in the same state (made from the same seed), return identical
\* umis_X and identical umis_Y, element for element.
C1_SameSeedSameSplit ==
    (Returned /\ calls = 2) => (umis_X = first[1].X /\ umis_Y = first[1].Y)

\* A second seeded call has returned a split in which the draws had more than
\* one possible outcome.
C1_Witness ==
    /\ Returned /\ calls = 2
    /\ \E i \in Items : 0 < umis_X_disjoint[i] /\ umis_X_disjoint[i] < umis[i]
    /\ \E i \in Items : 0 < shared[i]

\* C2: with overlap_factor = 0, every returned split has X + Y = counts
\* elementwise, whatever the two binomial draws produced.
C2_NoOverlapPartition ==
    (Returned /\ overlap_factor = 0) => \A i \in Items : umis_X[i] + umis_Y[i] = umis[i]

C2_Witness ==
    /\ Returned /\ overlap_factor = 0
    /\ \E i \in Items : 0 < umis_X[i] /\ umis_X[i] < umis[i]

\* C3 (as amended): every returned split has umis_X <= umis and umis_Y <= umis
\* elementwise: umis_X = umis - umis_Y_disjoint and umis_Y = umis - umis_X_disjoint.
C3_OutputsBoundedByInput ==
    Returned => \A i \in Items : umis_X[i] <= umis[i] /\ umis_Y[i] <= umis[i]

\* A returned split with shared molecules, counted in both outputs.
C3_Witness ==
    /\ Returned
    /\ \E i \in Items : shared[i] > 0 /\ umis_X[i] + umis_Y[i] > umis[i]

\* C3 as written: double-counting the overlap makes some element of umis_X or
\* umis_Y exceed the input count; stated on the returned splits in which
\* overlap was double-counted.
C3_Original ==
    (Returned /\ \E i \in Items : shared[i] > 0)
        => \E i \in Items : umis_X[i] > umis[i] \/ umis_Y[i] > umis[i]

\* C8: every returned split has X >= 0, Y >= 0, X <= counts + counts and
\* Y <= counts + counts elementwise.
C8_SanityBounds ==
    Returned =>
        \A i \in Items : /\ umis_X[i] >= 0 /\ umis_Y[i] >= 0
                         /\ umis_X[i] <= umis[i] + umis[i]
                         /\ umis_Y[i] <= umis[i] + umis[i]

\* A returned split with a positive overlap factor in which both draws took
\* molecules.
C8_Witness ==
    /\ Returned /\ overlap_factor > 0
    /\ \E i \in Items : umis_X_disjoint[i] > 0 /\ umis_Y_disjoint[i] > 0

\* C10: the second draw is taken from counts - X_disjoint, so in every returned
\* split X_disjoint + Y_disjoint <= counts, shared >= 0, and molecules are
\* conserved: X + Y - shared = counts (hence X + Y >= counts).
C10_Conservation ==
    Returned =>
        \A i \in Items : /\ umis_X_disjoint[i] + umis_Y_disjoint[i] <= umis[i]
                         /\ shared[i] >= 0
                         /\ umis_X[i] + umis_Y[i] - shared[i] = umis[i]
                         /\ umis_X[i] + umis_Y[i] >= umis[i]

\* A returned split in which the first draw took every molecule of an element
\* and left none to the second.
C10_Witness ==
    /\ Returned
    /\ \E i \in Items : umis[i] > 0 /\ umis_X_disjoint[i] = umis[i] /\ umis_Y_disjoint[i] = 0
    /\ \E i \in Items : umis_X_disjoint[i] < umis[i] /\ umis_Y_disjoint[i] > 0

(***************************************************************************)
(* Claims about overlap_correction                                         *)
(***************************************************************************)
OverlapReturned == oc_pc = "returned"

\* 0 <= x <= 1
InUnitInterval(x) == FLe(FZero(0), x) /\ FLe(x, One)

\* 0 < x <= 1
InHalfOpenUnitInterval(x) == InUnitInterval(x) /\ ~IsZero(x)

\* C4: a call of overlap_correction whose sample_ratio has an element outside
\* [0,1] never returns a result tuple: it ends in an error.
C4_OutOfDomainNeverReturns ==
    OverlapReturned => \A i \in DOMAIN sample_ratio.v : InUnitInterval(sample_ratio.v[i])

\* C7: for data_split in (0,1) and every sample_ratio in (0,1] the consistency
\* assertion holds and the call returns; p = new_split * r and
\* q = new_split_complement * r rebuilt from the result satisfy
\* p + q - p*q = r within the tolerance, and the returned overlap_factor is
\* new_split + new_split_complement - 1.
C7_ValidInputsConsistent ==
    (\A i \in DOMAIN sample_ratio.v : InHalfOpenUnitInterval(sample_ratio.v[i]))
        => /\ oc_pc # "AssertionError"
           /\ OverlapReturned =>
                \A i \in DOMAIN sample_ratio.v :
                    /\ IsClose(Union(FMul(oc_result[1][i], sample_ratio.v[i]),
                                     FMul(oc_result[2][i], sample_ratio.v[i])),
                               sample_ratio.v[i])
                    /\ oc_result[3][i] = OverlapFactor(oc_result[1][i], oc_result[2][i])

\* C9: when sample_ratio is uniformly zero (the scalar 0.0 or an all-zero
\* array), the call returns exactly (data_split, 1 - data_split, 0.0); the
\* quadratic is not solved and nothing is divided by sample_ratio.
C9_DegenerateCase ==
    (OverlapReturned /\ \A i \in DOMAIN sample_ratio.v : IsZero(sample_ratio.v[i]))
        => /\ oc_result = <<oc_data_split, FSub(One, oc_data_split), FZero(0)>>
           /\ oc_p = <<>> /\ oc_q = <<>>

\* A call with an all-zero array of more than one element has returned.
C9_Witness ==
    /\ OverlapReturned
    /\ ~sample_ratio.scalar /\ Len(sample_ratio.v) > 1
    /\ \A i \in DOMAIN sample_ratio.v : IsZero(sample_ratio.v[i])
    /\ oc_data_split # Dyadic(1, -1)

(***************************************************************************)
(* Claims about convert_expectations                                       *)
(***************************************************************************)
SameScale == ce_b = <<ce_a>>

NonNegativeInput == \A i \in 1..Len(ce_exp_sqrt) : ce_exp_sqrt[i] >= 0

\* C5: a call convert_expectations(x, a, a) on non-negative x, all-zero x
\* included, returns normally and its result equals x: no ValueError, and no
\* element clamped or changed.
C5_SameScaleIdentity ==
    (SameScale /\ NonNegativeInput)
        => /\ ce_pc # "ValueError"
           /\ ce_pc = "returned" => ce_result = ce_exp_sqrt

(***************************************************************************)
(* Claims about poisson_fit                                                *)
(***************************************************************************)
ZeroFeature(g) == \A c \in 1..Len(pf_umis) : pf_umis[c][g] = 0

InUnit(x) == ~x.nan /\ 0 <= x.v /\ x.v <= FX

\* C6: for every matrix with at least one cell, poisson_fit returns exactly
\* 1.0 for every gene whose count is 0 in every cell, and every returned
\* value lies in [0, 1].
C6_ZeroFeaturesGetOne ==
    pf_pc = "returned"
        => \A g \in 1..Len(pf_result) :
              /\ ZeroFeature(g) => pf_result[g] = Real(FX)
              /\ InUnit(pf_result[g])

====
